---- MODULE Spec2Model ----
(***************************************************************************)
(* Model of the testnet faucet (src/src/main.rs): the POST /faucet handler *)
(* send_tokens, run by several concurrent requests against one remote      *)
(* chain node.  A request is a sequence of awaits on the chain client; the *)
(* code between two awaits touches only the request's own locals, so each  *)
(* action is one chain-client call together with the code that follows it  *)
(* up to the next await or return.                                         *)
(***************************************************************************)
EXTENDS Integers, Sequences, FiniteSets, TLC

(***************************************************************************)
(* Bounds of the model.                                                    *)
(***************************************************************************)
\* number of /faucet requests the HTTP server dispatches
NumReq == 2
\* largest operator balance the chain starts with
MaxOperatorFunds == 2

Reqs == 1..NumReq

(***************************************************************************)
(* Option values: None, or Some(x).                                        *)
(***************************************************************************)
None == <<>>
Some(x) == <<x>>
IsSome(o) == o /= <<>>
Unwrap(o) == o[1]

(***************************************************************************)
(* Address::parse_checksummed(&data.address, None): the string has to      *)
(* start with "0x", to hex-decode into 20 bytes, and to equal the EIP-55   *)
(* encoding of the decoded address.  Strings are sequences of characters;  *)
(* an address is its 40 nibbles.                                           *)
(***************************************************************************)
LowerHex == <<"0","1","2","3","4","5","6","7","8","9","a","b","c","d","e","f">>
UpperHex == <<"0","1","2","3","4","5","6","7","8","9","A","B","C","D","E","F">>

IsHexChar(c) == \E i \in 1..16 : LowerHex[i] = c \/ UpperHex[i] = c
HexValue(c) == (CHOOSE i \in 1..16 : LowerHex[i] = c \/ UpperHex[i] = c) - 1

StartsWith0x(s) == Len(s) >= 2 /\ s[1] = "0" /\ s[2] = "x"
StripPrefix0x(s) == IF StartsWith0x(s) THEN SubSeq(s, 3, Len(s)) ELSE s

\* s.parse::<Address>(): optional 0x prefix, then exactly 40 hex digits
AddressFromStr(s) ==
    LET h == StripPrefix0x(s)
    IN  IF Len(h) = 40 /\ \A i \in 1..40 : IsHexChar(h[i])
        THEN [ok |-> TRUE, addr |-> [i \in 1..40 |-> HexValue(h[i])]]
        ELSE [ok |-> FALSE, addr |-> <<>>]

\* the three addresses of the model
AddrA == <<5,10,10,14,11,6,0,5,3,15,3,14,9,4,12,9,11,9,10,0,9,15,3,3,6,6,9,4,3,5,14,7,14,15,1,11,14,10,14,13>>
AddrB == <<15,11,6,9,1,6,0,9,5,12,10,1,13,15,6,0,11,11,7,9,12,14,9,2,12,14,3,14,10,7,4,12,3,7,12,5,13,3,5,9>>
OperatorAddress == <<15,3,9,15,13,6,14,5,1,10,10,13,8,8,15,6,15,4,12,14,6,10,11,8,8,2,7,2,7,9,12,15,15,15,11,9,2,2,6,6>>

\* keccak256 of the lower-case hex text of an address, first 40 nibbles
\* (computed with Keccak-256 for the addresses of the model)
Keccak256Nibbles(addr) ==
    CASE addr = AddrA ->
           <<13,3,8,5,6,5,0,12,14,8,15,13,12,6,13,11,7,14,14,3,10,0,9,1,13,3,4,8,1,4,13,11,12,4,12,14,1,8,2,1>>
      [] addr = AddrB ->
           <<5,12,15,10,12,6,6,3,15,4,5,8,3,7,11,4,0,9,12,4,13,3,13,12,1,12,14,15,5,15,4,7,5,9,7,3,4,15,4,9>>
      [] addr = OperatorAddress ->
           <<1,9,6,8,2,13,6,7,8,1,2,1,8,1,11,1,9,13,6,1,15,0,9,2,6,3,10,11,9,14,7,2,3,11,2,5,8,13,8,13>>

\* Address::to_checksum: a hex digit is upper-cased where the hash nibble is >= 8
ToChecksum(addr) ==
    LET hash == Keccak256Nibbles(addr)
    IN  <<"0", "x">> \o
        [i \in 1..40 |-> IF hash[i] >= 8 THEN UpperHex[addr[i] + 1]
                                         ELSE LowerHex[addr[i] + 1]]

\* a parser that forgets the checksum comparison
ParseUnchecked(s) ==
    IF ~StartsWith0x(s) THEN [ok |-> FALSE, addr |-> <<>>]
    ELSE AddressFromStr(s)

parse_checksummed(s) ==
    IF ~StartsWith0x(s) THEN [ok |-> FALSE, addr |-> <<>>]
    ELSE LET parsed == AddressFromStr(s)
         IN  IF ~parsed.ok THEN parsed
             ELSE IF s = ToChecksum(parsed.addr) THEN parsed
             ELSE [ok |-> FALSE, addr |-> <<>>]

(***************************************************************************)
(* The address strings requests carry.                                     *)
(***************************************************************************)
StrA == <<"0","x","5","a","A","e","b","6","0","5","3","F","3","E","9","4","C","9","b","9","A","0","9","f","3","3","6","6","9","4","3","5","E","7","E","f","1","B","e","A","e","d">>
StrB == <<"0","x","f","B","6","9","1","6","0","9","5","c","a","1","d","f","6","0","b","B","7","9","C","e","9","2","c","E","3","E","a","7","4","c","3","7","c","5","d","3","5","9">>
\* StrA in lower case: right digits, wrong checksum
StrWrongChecksum == <<"0","x","5","a","a","e","b","6","0","5","3","f","3","e","9","4","c","9","b","9","a","0","9","f","3","3","6","6","9","4","3","5","e","7","e","f","1","b","e","a","e","d">>
\* StrA without its last digit
StrWrongLength == SubSeq(StrA, 1, 41)
\* StrA with its last digit replaced by g
StrNonHex == SubSeq(StrA, 1, 41) \o <<"g">>
\* StrA without the 0x prefix
StrNoPrefix == SubSeq(StrA, 3, 42)

ValidStrings == {StrA, StrB}
MalformedStrings == {StrWrongChecksum, StrWrongLength, StrNonHex, StrNoPrefix}
AddressStrings == ValidStrings \cup MalformedStrings

(***************************************************************************)
(* Startup (main): the command line is parsed into the process-wide,       *)
(* read-only AppState.                                                     *)
(***************************************************************************)
\* U256::from(1_000_000_000): wei per gwei
WeiPerGwei == 1000000000

\* command lines the model starts the process with
ArgsChoices ==
    { [tokens_per_request |-> 1, gas_price_gwei |-> 1, gas_limit |-> 21000],
      [tokens_per_request |-> 2, gas_price_gwei |-> 2, gas_limit |-> 30000] }

AppState(args) ==
    [ tokens_per_request |-> args.tokens_per_request,
      gas_price          |-> args.gas_price_gwei * WeiPerGwei,
      gas_limit          |-> args.gas_limit ]

(***************************************************************************)
(* HTTP responses.                                                         *)
(***************************************************************************)
Ok == 200
BadRequest == 400
InternalServerError == 500

ErrorResponse(status, error) ==
    [status |-> status, error |-> error, transaction_hash |-> None]

\* format!("{:?}", receipt.tx_hash()): 0x followed by the hash's hex digits
FaucetResponse(hash) ==
    [status |-> Ok, error |-> "", transaction_hash |-> <<"0x", hash>>]

(***************************************************************************)
(* The remote node, reached through the chain client.  Every call may fail *)
(* (transport or node error).  The node keeps the balances, the operator's *)
(* transaction count and the pool of accepted, not yet mined transactions; *)
(* it accepts a transaction only with the operator's next nonce, once.     *)
(***************************************************************************)
\* the chain ids the node may have
NodeChainIds == {1, 31337}

Addresses == {OperatorAddress, AddrA, AddrB}

\* hash of a signed transaction, as the node computes and returns it
TxHash(envelope) == [keccak256 |-> envelope]

VARIABLES
    state,      \* AppState: tokens_per_request, gas_price, gas_limit
    pc,         \* per request: the await the handler is suspended at
    req,        \* per request: the handler's locals
    responses,  \* per request: the HTTP responses returned
    calls,      \* per request: the chain-client calls made, in order
    sent,       \* per request: the envelopes passed to send_tx_envelope
    balance,    \* node: balance of each address
    chainId,    \* node: the chain id it reports
    txCount,    \* node: the operator's mined transaction count
    pool        \* node: the accepted, pending transaction (Option)

vars == <<state, pc, req, responses, calls, sent, balance, chainId, txCount, pool>>
chain == <<balance, chainId, txCount, pool>>

NodeAccepts(envelope) ==
    /\ envelope.tx.nonce = txCount
    /\ pool = None
    /\ balance[envelope.signer] >= envelope.tx.value

\* one chain-client call: the method, its address argument, and whether it
\* returned Ok
Call(method, arg, ok) == [method |-> method, arg |-> arg, ok |-> ok]

NoLocals ==
    [ address |-> None, to_address |-> None, sender_balance |-> None,
      receiver_balance |-> None, nonce |-> None, chain_id |-> None,
      tx |-> None, tx_envelope |-> None ]

Init ==
    /\ \E args \in ArgsChoices : state = AppState(args)
    /\ pc = [r \in Reqs |-> "idle"]
    /\ req = [r \in Reqs |-> NoLocals]
    /\ responses = [r \in Reqs |-> <<>>]
    /\ calls = [r \in Reqs |-> <<>>]
    /\ sent = [r \in Reqs |-> <<>>]
    /\ \E ob \in 0..MaxOperatorFunds, ra \in {0, 5} :
          balance = [a \in Addresses |->
                        IF a = OperatorAddress THEN ob
                        ELSE IF a = AddrA THEN ra ELSE 0]
    /\ chainId \in NodeChainIds
    /\ txCount = 0
    /\ pool = None

(***************************************************************************)
(* send_tokens, one action per await.                                      *)
(***************************************************************************)
Return(r, response) ==
    /\ responses' = [responses EXCEPT ![r] = Append(@, response)]
    /\ pc' = [pc EXCEPT ![r] = "done"]

Record(r, method, arg, ok) ==
    calls' = [calls EXCEPT ![r] = Append(@, Call(method, arg, ok))]

\* lines 78-89: the request arrives with an address string, which is parsed
Start(r, s) ==
    /\ pc[r] = "idle"
    /\ LET parsed == parse_checksummed(s)
       IN  IF ~parsed.ok
           THEN /\ Return(r, ErrorResponse(BadRequest, "Invalid address"))
                /\ req' = [req EXCEPT ![r].address = Some(s)]
           ELSE /\ req' = [req EXCEPT ![r].address = Some(s),
                                      ![r].to_address = Some(parsed.addr)]
                /\ pc' = [pc EXCEPT ![r] = "get_sender_balance"]
                /\ UNCHANGED responses
    /\ UNCHANGED <<state, calls, sent, chain>>

\* a check that only catches an empty wallet
InsufficientOnlyWhenEmpty(sender_balance, tokens_per_request) ==
    sender_balance = 0

\* a check that also turns away a balance equal to the amount
InsufficientUnlessGreater(sender_balance, tokens_per_request) ==
    sender_balance <= tokens_per_request

\* line 100
InsufficientBalance(sender_balance, tokens_per_request) ==
    sender_balance < tokens_per_request

\* lines 92-104
GetSenderBalance(r) ==
    /\ pc[r] = "get_sender_balance"
    /\ \/ /\ Record(r, "get_balance", OperatorAddress, FALSE)
          /\ Return(r, ErrorResponse(InternalServerError, "Failed to get balance: "))
          /\ UNCHANGED req
       \/ LET b == balance[OperatorAddress]
          IN  /\ Record(r, "get_balance", OperatorAddress, TRUE)
              /\ req' = [req EXCEPT ![r].sender_balance = Some(b)]
              /\ IF InsufficientBalance(b, state.tokens_per_request)
                 THEN Return(r, ErrorResponse(BadRequest, "Insufficient balance"))
                 ELSE /\ pc' = [pc EXCEPT ![r] = "get_receiver_balance"]
                      /\ UNCHANGED responses
    /\ UNCHANGED <<state, sent, chain>>

\* a check that lets dust through
AlreadyFundedAboveDust(receiver_balance) == receiver_balance > 1

\* line 114
AlreadyFunded(receiver_balance) == receiver_balance > 0

\* lines 106-118
GetReceiverBalance(r) ==
    /\ pc[r] = "get_receiver_balance"
    /\ \/ /\ Record(r, "get_balance", Unwrap(req[r].to_address), FALSE)
          /\ Return(r, ErrorResponse(InternalServerError, "Failed to get balance: "))
          /\ UNCHANGED req
       \/ LET b == balance[Unwrap(req[r].to_address)]
          IN  /\ Record(r, "get_balance", Unwrap(req[r].to_address), TRUE)
              /\ req' = [req EXCEPT ![r].receiver_balance = Some(b)]
              /\ IF AlreadyFunded(b)
                 THEN Return(r, ErrorResponse(BadRequest,
                                 "Receiver already has a balance greater than 0"))
                 ELSE /\ pc' = [pc EXCEPT ![r] = "get_nonce"]
                      /\ UNCHANGED responses
    /\ UNCHANGED <<state, sent, chain>>

\* a nonce lookup that falls back to 0 when the call fails
GetNonceUnwrapOrDefault(r) ==
    /\ pc[r] = "get_nonce"
    /\ \E ok \in BOOLEAN :
          /\ Record(r, "get_transaction_count", OperatorAddress, ok)
          /\ req' = [req EXCEPT ![r].nonce = Some(IF ok THEN txCount ELSE 0)]
    /\ pc' = [pc EXCEPT ![r] = "get_chain_id"]
    /\ UNCHANGED <<state, responses, sent, chain>>

\* a nonce lookup that skips the nonces other requests in flight hold
GetNonceSequenced(r) ==
    /\ pc[r] = "get_nonce"
    /\ \/ /\ Record(r, "get_transaction_count", OperatorAddress, FALSE)
          /\ Return(r, ErrorResponse(InternalServerError, "Failed to get nonce: "))
          /\ UNCHANGED req
       \/ /\ Record(r, "get_transaction_count", OperatorAddress, TRUE)
          /\ req' = [req EXCEPT ![r].nonce = Some(txCount +
                 Cardinality({q \in Reqs : pc[q] /= "done" /\ IsSome(req[q].nonce)}))]
          /\ pc' = [pc EXCEPT ![r] = "get_chain_id"]
          /\ UNCHANGED responses
    /\ UNCHANGED <<state, sent, chain>>

\* lines 120-128
GetNonce(r) ==
    /\ pc[r] = "get_nonce"
    /\ \/ /\ Record(r, "get_transaction_count", OperatorAddress, FALSE)
          /\ Return(r, ErrorResponse(InternalServerError, "Failed to get nonce: "))
          /\ UNCHANGED req
       \/ /\ Record(r, "get_transaction_count", OperatorAddress, TRUE)
          /\ req' = [req EXCEPT ![r].nonce = Some(txCount)]
          /\ pc' = [pc EXCEPT ![r] = "get_chain_id"]
          /\ UNCHANGED responses
    /\ UNCHANGED <<state, sent, chain>>

\* a request that leaves the priority fee at zero
TransactionRequestNoTip(to_address, nonce, chain_id, st) ==
    [ to                       |-> to_address,
      nonce                    |-> nonce,
      value                    |-> st.tokens_per_request,
      gas_limit                |-> st.gas_limit,
      max_fee_per_gas          |-> st.gas_price,
      max_priority_fee_per_gas |-> 0,
      chain_id                 |-> chain_id ]

\* lines 140-149
TransactionRequest(to_address, nonce, chain_id, st) ==
    [ to                       |-> to_address,
      nonce                    |-> nonce,
      value                    |-> st.tokens_per_request,
      gas_limit                |-> st.gas_limit,
      max_fee_per_gas          |-> st.gas_price,
      max_priority_fee_per_gas |-> st.gas_price,
      chain_id                 |-> chain_id ]

\* lines 130-149: the chain id, then the transaction request is assembled
GetChainId(r) ==
    /\ pc[r] = "get_chain_id"
    /\ \/ /\ Record(r, "get_chain_id", <<>>, FALSE)
          /\ Return(r, ErrorResponse(InternalServerError, "Failed to get chain ID: "))
          /\ UNCHANGED req
       \/ /\ Record(r, "get_chain_id", <<>>, TRUE)
          /\ req' = [req EXCEPT
                 ![r].chain_id = Some(chainId),
                 ![r].tx = Some(TransactionRequest(Unwrap(req[r].to_address),
                                    Unwrap(req[r].nonce), chainId, state))]
          /\ pc' = [pc EXCEPT ![r] = "build"]
          /\ UNCHANGED responses
    /\ UNCHANGED <<state, sent, chain>>

\* lines 151-159: tx.build(&state.wallet) signs with the operator's key
Build(r) ==
    /\ pc[r] = "build"
    /\ \/ /\ Record(r, "build", <<>>, FALSE)
          /\ Return(r, ErrorResponse(InternalServerError, "Failed to build transaction: "))
          /\ UNCHANGED req
       \/ /\ Record(r, "build", <<>>, TRUE)
          /\ req' = [req EXCEPT ![r].tx_envelope =
                        Some([tx |-> Unwrap(req[r].tx), signer |-> OperatorAddress])]
          /\ pc' = [pc EXCEPT ![r] = "send"]
          /\ UNCHANGED responses
    /\ UNCHANGED <<state, sent, chain>>

\* a submission that waits while another request has submitted to the same
\* recipient
SendTxSerialized(r) ==
    /\ pc[r] = "send"
    /\ \A q \in Reqs \ {r} :
          sent[q] /= <<>> => req[q].to_address /= req[r].to_address
    /\ LET envelope == Unwrap(req[r].tx_envelope)
       IN  /\ sent' = [sent EXCEPT ![r] = Append(@, envelope)]
           /\ \/ /\ NodeAccepts(envelope)
                 /\ Record(r, "send_tx_envelope", <<>>, TRUE)
                 /\ pool' = Some(envelope)
                 /\ Return(r, FaucetResponse(TxHash(envelope)))
              \/ /\ Record(r, "send_tx_envelope", <<>>, FALSE)
                 /\ Return(r, ErrorResponse(InternalServerError, "Failed to send transaction: "))
                 /\ UNCHANGED pool
    /\ UNCHANGED <<state, req, balance, chainId, txCount>>

\* a submission that is tried again after a failure
SendTxWithRetry(r) ==
    /\ pc[r] = "send"
    /\ LET envelope == Unwrap(req[r].tx_envelope)
       IN  /\ sent' = [sent EXCEPT ![r] = Append(@, envelope)]
           /\ \/ /\ NodeAccepts(envelope)
                 /\ Record(r, "send_tx_envelope", <<>>, TRUE)
                 /\ pool' = Some(envelope)
                 /\ Return(r, FaucetResponse(TxHash(envelope)))
              \/ /\ Record(r, "send_tx_envelope", <<>>, FALSE)
                 /\ IF sent[r] = <<>>
                    THEN UNCHANGED <<pc, responses>>
                    ELSE Return(r, ErrorResponse(InternalServerError,
                                    "Failed to send transaction: "))
                 /\ UNCHANGED pool
    /\ UNCHANGED <<state, req, balance, chainId, txCount>>

\* lines 161-177
SendTx(r) ==
    /\ pc[r] = "send"
    /\ LET envelope == Unwrap(req[r].tx_envelope)
       IN  /\ sent' = [sent EXCEPT ![r] = Append(@, envelope)]
           /\ \/ /\ NodeAccepts(envelope)
                 /\ Record(r, "send_tx_envelope", <<>>, TRUE)
                 /\ pool' = Some(envelope)
                 /\ Return(r, FaucetResponse(TxHash(envelope)))
              \/ /\ Record(r, "send_tx_envelope", <<>>, FALSE)
                 /\ Return(r, ErrorResponse(InternalServerError, "Failed to send transaction: "))
                 /\ UNCHANGED pool
    /\ UNCHANGED <<state, req, balance, chainId, txCount>>

\* the node mines the pending transaction
Mine ==
    /\ pool /= None
    /\ LET tx == Unwrap(pool).tx
       IN  balance' = [balance EXCEPT ![Unwrap(pool).signer] = @ - tx.value,
                                      ![tx.to] = @ + tx.value]
    /\ txCount' = txCount + 1
    /\ pool' = None
    /\ UNCHANGED <<state, pc, req, responses, calls, sent, chainId>>

Next ==
    \/ \E r \in Reqs, s \in AddressStrings : Start(r, s)
    \/ \E r \in Reqs : GetSenderBalance(r)
    \/ \E r \in Reqs : GetReceiverBalance(r)
    \/ \E r \in Reqs : GetNonce(r)
    \/ \E r \in Reqs : GetChainId(r)
    \/ \E r \in Reqs : Build(r)
    \/ \E r \in Reqs : SendTx(r)
    \/ Mine

Spec == Init /\ [][Next]_vars

(***************************************************************************)
(* Properties.                                                             *)
(***************************************************************************)
Done(r) == pc[r] = "done"
Arrived(r) == IsSome(req[r].address)
Submitted(r) == sent[r] /= <<>>
Methods(r) == [i \in 1..Len(calls[r]) |-> calls[r][i].method]
Failed(r) == \E i \in 1..Len(calls[r]) : ~calls[r][i].ok
\* the address a well-formed string of the model denotes
Denoted(s) == IF s = StrA THEN AddrA ELSE AddrB

\* C1: a request whose address string is not a checksummed address is
\* answered 400 "Invalid address" and makes no chain-client call and no
\* submission, whatever the chain state and the other requests.
C1_InvalidAddress ==
    \A r \in Reqs :
        (Arrived(r) /\ Unwrap(req[r].address) \in MalformedStrings) =>
            /\ Done(r)
            /\ responses[r] = << [status |-> 400, error |-> "Invalid address",
                                  transaction_hash |-> <<>>] >>
            /\ calls[r] = <<>>
            /\ sent[r] = <<>>

\* a string with a wrong checksum has been turned away while another request
\* was about to submit
C1_Witness ==
    \E r, q \in Reqs :
        /\ r /= q
        /\ Arrived(r) /\ Unwrap(req[r].address) = StrWrongChecksum
        /\ Done(r) /\ responses[r][1].status = 400
        /\ pc[q] = "send"

\* C2: a request that read an operator balance below the dispense amount is
\* answered 400 "Insufficient balance" without looking at the recipient and
\* without submitting.
C2_InsufficientBalance ==
    \A r \in Reqs :
        (IsSome(req[r].sender_balance)
            /\ Unwrap(req[r].sender_balance) < state.tokens_per_request) =>
            /\ Done(r)
            /\ responses[r] = << [status |-> 400, error |-> "Insufficient balance",
                                  transaction_hash |-> <<>>] >>
            /\ Methods(r) = <<"get_balance">>
            /\ sent[r] = <<>>

\* two requests were turned away for insufficient funds, one for a funded
\* recipient and one for an unfunded one
C2_Witness ==
    \E r, q \in Reqs :
        /\ Done(r) /\ Done(q)
        /\ responses[r][1].error = "Insufficient balance"
        /\ responses[q][1].error = "Insufficient balance"
        /\ balance[Unwrap(req[r].to_address)] > 0
        /\ balance[Unwrap(req[q].to_address)] = 0
        /\ req[r].sender_balance = <<1>>

\* C3: a request that read a recipient balance above zero is answered 400
\* "Receiver already has a balance greater than 0" and goes no further; only
\* a read of exactly zero reaches the nonce lookup.
C3_AlreadyFunded ==
    \A r \in Reqs :
        /\ (IsSome(req[r].receiver_balance) /\ Unwrap(req[r].receiver_balance) > 0) =>
              /\ Done(r)
              /\ responses[r] =
                    << [status |-> 400,
                        error |-> "Receiver already has a balance greater than 0",
                        transaction_hash |-> <<>>] >>
              /\ Methods(r) = <<"get_balance", "get_balance">>
              /\ sent[r] = <<>>
        /\ (\E i \in 1..Len(calls[r]) : calls[r][i].method = "get_transaction_count") =>
              req[r].receiver_balance = <<0>>

\* a recipient funded by an earlier dispense was turned away
C3_Witness ==
    \E r, q \in Reqs :
        /\ r /= q
        /\ Done(q) /\ responses[q][1].status = 200
        /\ Done(r) /\ IsSome(req[r].receiver_balance)
        /\ Unwrap(req[r].receiver_balance) = state.tokens_per_request
        /\ responses[r][1].status = 400

\* C4: a request answered 200 has submitted exactly one transaction, to the
\* parsed recipient, with the configured amount, gas limit and gas price (as
\* both fees), the nonce and chain id it fetched itself, and the response
\* carries the hash of that transaction.
C4_SubmittedTransaction ==
    \A r \in Reqs :
        (Done(r) /\ responses[r][1].status = 200) =>
            /\ Len(sent[r]) = 1
            /\ sent[r][1].tx =
                  [ to                       |-> Denoted(Unwrap(req[r].address)),
                    nonce                    |-> Unwrap(req[r].nonce),
                    value                    |-> state.tokens_per_request,
                    gas_limit                |-> state.gas_limit,
                    max_fee_per_gas          |-> state.gas_price,
                    max_priority_fee_per_gas |-> state.gas_price,
                    chain_id                 |-> Unwrap(req[r].chain_id) ]
            /\ Unwrap(req[r].chain_id) = chainId
            /\ responses[r][1].transaction_hash = <<"0x", TxHash(sent[r][1])>>

\* two requests were answered 200 with different nonces
C4_Witness ==
    \E r, q \in Reqs :
        /\ Done(r) /\ responses[r][1].status = 200
        /\ Done(q) /\ responses[q][1].status = 200
        /\ Unwrap(req[r].nonce) = 0 /\ Unwrap(req[q].nonce) = 1

\* C5: a request that read an operator balance not below the amount (equal
\* included), was not told of a recipient balance above zero, and none of
\* whose chain-client calls failed, ends only after reading a recipient
\* balance of zero and making all six calls, with 200 and a transaction hash.
C5_Success ==
    \A r \in Reqs :
        (/\ Done(r)
         /\ IsSome(req[r].sender_balance)
         /\ Unwrap(req[r].sender_balance) >= state.tokens_per_request
         /\ ~(IsSome(req[r].receiver_balance) /\ Unwrap(req[r].receiver_balance) > 0)
         /\ ~Failed(r)) =>
            /\ req[r].receiver_balance = <<0>>
            /\ responses[r][1].status = 200
            /\ responses[r][1].transaction_hash /= <<>>
            /\ Len(calls[r]) = 6

\* a request that read an operator balance equal to the amount got 200
C5_Witness ==
    \E r \in Reqs :
        /\ Done(r)
        /\ req[r].sender_balance = <<state.tokens_per_request>>
        /\ req[r].receiver_balance = <<0>>
        /\ responses[r][1].status = 200

\* C6: a transaction is submitted only after the request read a recipient
\* balance of zero and an operator balance strictly greater than the amount.
C6_StrictlyGreater ==
    \A r \in Reqs :
        Submitted(r) =>
            /\ req[r].receiver_balance = <<0>>
            /\ IsSome(req[r].sender_balance)
            /\ Unwrap(req[r].sender_balance) > state.tokens_per_request

\* the status the first failing step of a request calls for
ExpectedStatus(r) ==
    IF Unwrap(req[r].address) \in MalformedStrings THEN 400
    ELSE IF Failed(r) THEN 500
    ELSE IF Unwrap(req[r].sender_balance) < state.tokens_per_request THEN 400
    ELSE IF Unwrap(req[r].receiver_balance) > 0 THEN 400
    ELSE 200

\* C7: a request ends with exactly one response, whose status is the one its
\* first failing step calls for; a failed call is the request's last call, so
\* nothing is submitted after a failure before submission; and a request not
\* yet arrived can always be started, whatever became of the others.
C7_FirstFailureDecides ==
    \A r \in Reqs :
        /\ Len(responses[r]) = (IF Done(r) THEN 1 ELSE 0)
        /\ Done(r) => responses[r][1].status = ExpectedStatus(r)
        /\ \A i \in 1..Len(calls[r]) : ~calls[r][i].ok => i = Len(calls[r]) /\ Done(r)
        /\ (Failed(r) /\ calls[r][Len(calls[r])].method /= "send_tx_envelope") =>
              sent[r] = <<>>
        /\ pc[r] = "idle" => ENABLED (\E s \in AddressStrings : Start(r, s))

\* a request ended 500 on a failed nonce lookup, its third and last call,
\* and another request ended 200
C7_Witness ==
    \E r, q \in Reqs :
        /\ Done(r) /\ responses[r][1].status = 500
        /\ Len(calls[r]) = 3 /\ ~calls[r][3].ok
        /\ Done(q) /\ responses[q][1].status = 200

\* C8: the zero-balance check is not atomic with submission: a request that
\* passed the check and is about to submit can do so although another
\* request has already submitted to the same recipient.
C8_NoSerialization ==
    \A r, q \in Reqs :
        (/\ r /= q
         /\ pc[r] = "send"
         /\ Submitted(q)
         /\ req[q].to_address = req[r].to_address) =>
            /\ req[r].receiver_balance = <<0>>
            /\ ENABLED SendTx(r)

\* two requests for the same recipient both read a balance of zero, both
\* submitted and both were answered 200
C8_Witness ==
    \E r, q \in Reqs :
        /\ r /= q
        /\ req[r].to_address = req[q].to_address
        /\ req[r].receiver_balance = <<0>> /\ req[q].receiver_balance = <<0>>
        /\ Submitted(r) /\ Submitted(q)
        /\ Done(r) /\ responses[r][1].status = 200
        /\ Done(q) /\ responses[q][1].status = 200

\* C9: the nonce lookup hands a request the node's current count whatever
\* nonces other requests hold; and of two requests that submitted with the
\* same nonce at most one is answered 200, the other 500.
C9_SharedNonce ==
    /\ \A r \in Reqs :
          pc[r] = "get_nonce" =>
              ENABLED (GetNonce(r) /\ req'[r].nonce = <<txCount>>)
    /\ \A r, q \in Reqs :
          (/\ r /= q
           /\ Done(r) /\ Done(q)
           /\ Submitted(r) /\ Submitted(q)
           /\ sent[r][1].tx.nonce = sent[q][1].tx.nonce) =>
              \/ responses[r][1].status = 500
              \/ responses[q][1].status = 500

\* two requests submitted with the same nonce; one was answered 200, the
\* other 500
C9_Witness ==
    \E r, q \in Reqs :
        /\ r /= q
        /\ Submitted(r) /\ Submitted(q)
        /\ sent[r][1].tx.nonce = sent[q][1].tx.nonce
        /\ Done(r) /\ responses[r][1].status = 200
        /\ Done(q) /\ responses[q][1].status = 500

\* the order of the chain-client calls within a request
CallOrder ==
    <<"get_balance", "get_balance", "get_transaction_count", "get_chain_id",
      "build", "send_tx_envelope">>

\* C10: the calls of a request are a prefix of the fixed order, each made
\* once and only after the one before returned Ok, the balance lookups for
\* the operator and then the recipient; a submission follows an operator
\* balance read not below the amount and a recipient balance read of zero.
C10_CallOrder ==
    \A r \in Reqs :
        /\ Len(calls[r]) <= 6
        /\ Methods(r) = SubSeq(CallOrder, 1, Len(calls[r]))
        /\ \A i \in 1..Len(calls[r]) : i < Len(calls[r]) => calls[r][i].ok
        /\ Len(calls[r]) >= 1 => calls[r][1].arg = OperatorAddress
        /\ Len(calls[r]) >= 2 => calls[r][2].arg = Denoted(Unwrap(req[r].address))
        /\ Len(calls[r]) >= 3 => calls[r][3].arg = OperatorAddress
        /\ Len(sent[r]) <= 1
        /\ Submitted(r) <=> (Len(calls[r]) = 6)
        /\ Submitted(r) =>
              /\ IsSome(req[r].sender_balance)
              /\ Unwrap(req[r].sender_balance) >= state.tokens_per_request
              /\ req[r].receiver_balance = <<0>>

\* a request made all six calls while another one was between its calls
C10_Witness ==
    \E r, q \in Reqs :
        /\ r /= q
        /\ Len(calls[r]) = 6
        /\ Len(calls[q]) = 3 /\ pc[q] = "get_chain_id"

====
